---- MODULE Spec2Model ----
(***************************************************************************)
(* The HashtagGenerator component (src/components/HashtagGenerator.tsx):   *)
(* its React state, the asynchronous generateHashtags handler with the     *)
(* embedding-model probe, and the two scorers and the merge it applies.    *)
(*                                                                         *)
(* A JavaScript string is a sequence of one-character strings, so that     *)
(* toLowerCase, the regular-expression replace and split, and the          *)
(* substring test String.prototype.includes are computed character by      *)
(* character.  A JavaScript number that the scorers produce is a rational  *)
(* [n, d] with d > 0, or NaN, written 0/0.  The rationals that occur have  *)
(* small denominators, so IEEE-754 rounding keeps both their order and     *)
(* their equalities: x / y * 2 is the correctly rounded quotient scaled    *)
(* exactly by 2, and the literals 0.7 and 0.9 are the roundings of 7/10    *)
(* and 9/10.                                                               *)
(***************************************************************************)
EXTENDS Integers, Sequences, FiniteSets, TLC

VARIABLES
  inputText,         \* useState('') of line 16
  hashtags,          \* useState([]) of line 17
  isLoading,         \* useState(false) of line 18
  toasted,           \* the toast generateHashtags showed last, "none" before
  pc,                \* where the running call is suspended, "idle" if none is
  text,              \* the inputText the running call closed over
  probes,            \* pipeline() calls made by the call that ran last
  keywordHashtags,   \* the local of lines 110 and 130
  categoryHashtags   \* the local of lines 111 and 131

vars == <<inputText, hashtags, isLoading, toasted, pc, text, probes,
          keywordHashtags, categoryHashtags>>

(***************************************************************************)
(* Characters and strings                                                  *)
(***************************************************************************)
UpperCase ==
  <<"A","B","C","D","E","F","G","H","I","J","K","L","M",
    "N","O","P","Q","R","S","T","U","V","W","X","Y","Z">>

LowerCase ==
  <<"a","b","c","d","e","f","g","h","i","j","k","l","m",
    "n","o","p","q","r","s","t","u","v","w","x","y","z">>

Digits == <<"0","1","2","3","4","5","6","7","8","9">>

Range(s) == { s[i] : i \in DOMAIN s }

IndexOf(c, s) == CHOOSE i \in DOMAIN s : s[i] = c

\* The k-th smallest element of the set of integers S.
Nth(S, k) == CHOOSE i \in S : Cardinality({ j \in S : j <= i }) = k

LowerOf == [ c \in Range(UpperCase) |-> LowerCase[IndexOf(c, UpperCase)] ]

\* String.prototype.toLowerCase on the characters of the model's alphabet.
toLowerCase(s) ==
  [ i \in 1..Len(s) |-> IF s[i] \in DOMAIN LowerOf THEN LowerOf[s[i]] ELSE s[i] ]

WordChars == Range(UpperCase) \cup Range(LowerCase) \cup Range(Digits) \cup {"_"}

\* The regular-expression classes \w and \s.
IsWordChar(c) == c \in WordChars

IsSpace(c) == c \in {" ", "\t", "\n"}

\* .replace(/[^\w\s]/g, ' ')
replaceNonWord(s) ==
  [ i \in 1..Len(s) |-> IF IsWordChar(s[i]) \/ IsSpace(s[i]) THEN s[i] ELSE " " ]

\* .split(/\s+/): the pieces between the runs of white space, in order; a
\* leading or a trailing run, and the empty string, leave an empty piece.
split(s) ==
  LET n == Len(s)
      starts == { i \in 1..n : ~IsSpace(s[i]) /\ (i = 1 \/ IsSpace(s[i - 1])) }
      ends == { i \in 1..n : ~IsSpace(s[i]) /\ (i = n \/ IsSpace(s[i + 1])) }
      tokens == [ k \in 1..Cardinality(starts) |->
                    SubSeq(s, Nth(starts, k), Nth(ends, k)) ]
  IN (IF n = 0 \/ IsSpace(s[1]) THEN << <<>> >> ELSE <<>>)
     \o tokens
     \o (IF n > 0 /\ IsSpace(s[n]) THEN << <<>> >> ELSE <<>>)

\* String.prototype.includes: k occurs in s as a substring.
includes(s, k) ==
  \E i \in 0..(Len(s) - Len(k)) : \A j \in 1..Len(k) : s[i + j] = k[j]

\* String.prototype.trim
trim(s) ==
  LET inked == { i \in 1..Len(s) : ~IsSpace(s[i]) }
  IN IF inked = {} THEN <<>>
     ELSE SubSeq(s, Nth(inked, 1), Nth(inked, Cardinality(inked)))

\* Array.prototype.filter, keeping the order: keep[i] is the callback's
\* result on s[i].
filter(s, keep) ==
  LET kept == { i \in 1..Len(s) : keep[i] }
  IN [ k \in 1..Cardinality(kept) |-> s[Nth(kept, k)] ]

\* Array.prototype.slice(0, n)
slice(s, n) == SubSeq(s, 1, IF Len(s) < n THEN Len(s) ELSE n)

(***************************************************************************)
(* Numbers                                                                 *)
(***************************************************************************)
NaN == [n |-> 0, d |-> 0]

IsNaN(x) == x.d = 0

Num(a, b) == [n |-> a, d |-> b]

NumEq(x, y) == ~IsNaN(x) /\ ~IsNaN(y) /\ x.n * y.d = y.n * x.d

\* x <= y as JavaScript compares numbers: false when either is NaN.
NumLeq(x, y) == ~IsNaN(x) /\ ~IsNaN(y) /\ x.n * y.d <= y.n * x.d

NumLess(x, y) == ~IsNaN(x) /\ ~IsNaN(y) /\ x.n * y.d < y.n * x.d

\* Math.min(x, y): NaN when either argument is NaN.
MathMin(x, y) ==
  IF IsNaN(x) \/ IsNaN(y) THEN NaN ELSE IF NumLess(y, x) THEN y ELSE x

(***************************************************************************)
(* Array.prototype.sort with a comparator (a, b) => key(b) - key(a).  The  *)
(* sort is stable (ECMA-262 since 2019) and descending in the keys.  The   *)
(* standard takes a NaN result of the comparator as +0, so an entry whose  *)
(* key is NaN compares equal to every other; the comparator is then not a  *)
(* consistent one and the standard leaves the order to the engine.  The    *)
(* model takes the order of a stable insertion sort: an entry with a NaN   *)
(* key keeps its index, no entry moves across it, and the entries between  *)
(* two of them are sorted.                                                 *)
(***************************************************************************)
\* key(b) - key(a) > 0: a is to come after b.
ComesAfter(ka, kb) == NumLess(ka, kb)

Max(S) == CHOOSE x \in S : \A y \in S : y <= x

Min(S) == CHOOSE x \in S : \A y \in S : x <= y

\* The index that the entry at index i of keys has after the sort.
SortedIndex(keys, i) ==
  LET n == Len(keys)
      fixed == { j \in 1..n : IsNaN(keys[j]) }
      lo == Max({0} \cup { j \in fixed : j < i }) + 1
      hi == Min({n + 1} \cup { j \in fixed : j > i }) - 1
  IN IF i \in fixed THEN i
     ELSE lo + Cardinality({ j \in lo..hi :
                               \/ ComesAfter(keys[i], keys[j])
                               \/ NumEq(keys[i], keys[j]) /\ j < i })

\* s sorted, keys[i] being the key of s[i].
sort(s, keys) ==
  LET to == [ i \in 1..Len(s) |-> SortedIndex(keys, i) ] \o <<>>
  IN [ p \in 1..Len(s) |-> s[CHOOSE i \in 1..Len(s) : to[i] = p] ]

(***************************************************************************)
(* extractKeywords                                                         *)
(***************************************************************************)
commonWords ==
  << <<"t","h","a","t">>,
     <<"t","h","i","s">>,
     <<"w","i","t","h">>,
     <<"f","r","o","m">>,
     <<"t","h","e","y">>,
     <<"h","a","v","e">>,
     <<"b","e","e","n">>,
     <<"w","e","r","e">>,
     <<"w","i","l","l">>,
     <<"w","o","u","l","d">>,
     <<"c","o","u","l","d">>,
     <<"s","h","o","u","l","d">>,
     <<"a","b","o","u","t">>,
     <<"t","h","e","r","e">>,
     <<"t","h","e","i","r">>,
     <<"w","h","e","r","e">>,
     <<"w","h","e","n">>,
     <<"w","h","a","t">>,
     <<"w","h","i","c","h">>,
     <<"w","h","i","l","e">>,
     <<"t","h","r","o","u","g","h">>,
     <<"d","u","r","i","n","g">>,
     <<"b","e","f","o","r","e">>,
     <<"a","f","t","e","r">>,
     <<"a","b","o","v","e">>,
     <<"b","e","l","o","w">>,
     <<"b","e","t","w","e","e","n">>,
     <<"i","n","t","o">>,
     <<"o","n","t","o">>,
     <<"u","p","o","n">>,
     <<"w","i","t","h","i","n">>,
     <<"w","i","t","h","o","u","t">> >>

\* word.length > 3
MinLength == 3

\* .slice(0, 12)
TopKeywords == 12

\* Math.min(..., 0.9)
MaxKeywordConfidence == Num(9, 10)


\* The filter of line 33 without its test of the length.
wordsOfAnyLength(t) ==
  LET pieces == split(replaceNonWord(toLowerCase(t)))
  IN filter(pieces, [ i \in 1..Len(pieces) |-> pieces[i] \notin Range(commonWords) ])

\* The tokens that survive the filter of line 33, in text order.
words(t) ==
  LET pieces == split(replaceNonWord(toLowerCase(t)))
  IN filter(pieces,
            [ i \in 1..Len(pieces) |->
                Len(pieces[i]) > MinLength /\ pieces[i] \notin Range(commonWords) ])

\* The two names a token can take that an object literal inherits from
\* Object.prototype (the text is lower-cased, so toString, valueOf and the
\* other camel-case names cannot occur).
constructorName == <<"c","o","n","s","t","r","u","c","t","o","r">>

protoName == <<"_","_","p","r","o","t","o","_","_">>

\* The value of wordCount[word] after n evaluations of
\*   wordCount[word] = (wordCount[word] || 0) + 1
\* on the object literal of line 36.  A value is the number n, or a string:
\* the source text of the Object function followed by n characters "1".
\*   - for 'constructor' the first read finds Object.prototype.constructor,
\*     a function, which is truthy: function + 1 is a string, and every
\*     later string + 1 appends a "1";
\*   - for any other name the first read finds undefined, (undefined || 0)
\*     is 0, and the value is a number that each evaluation adds 1 to.
countAfter(word, n) ==
  IF word = constructorName THEN [kind |-> "string", n |-> n]
  ELSE [kind |-> "number", n |-> n]

\* wordCount after words.forEach(...) of lines 37-39: its own properties in
\* the order they were created, that of the first occurrences of the words.
\* The assignment to '__proto__' goes to the setter of Object.prototype,
\* which ignores a value that is neither an object nor null (it is a
\* string here, the prototype object + 1): no property is created.
wordCount(ws) ==
  LET first == { i \in 1..Len(ws) :
                   ws[i] # protoName /\ \A j \in 1..(i - 1) : ws[j] # ws[i] }
  IN [ k \in 1..Cardinality(first) |->
         LET word == ws[Nth(first, k)]
         IN [key |-> word,
             value |-> countAfter(word, Cardinality({ j \in 1..Len(ws) : ws[j] = word }))] ]
     \o <<>>

\* A canonical array index: decimal digits without a leading zero, at most
\* 2^32 - 2.
MaxArrayIndex == <<"4","2","9","4","9","6","7","2","9","4">>

DigitsLess(a, b) ==
  \/ Len(a) < Len(b)
  \/ /\ Len(a) = Len(b)
     /\ \E i \in 1..Len(a) :
          /\ SubSeq(a, 1, i - 1) = SubSeq(b, 1, i - 1)
          /\ IndexOf(a[i], Digits) < IndexOf(b[i], Digits)

IsArrayIndex(key) ==
  /\ Len(key) > 0
  /\ \A i \in 1..Len(key) : key[i] \in Range(Digits)
  /\ Len(key) = 1 \/ key[1] # "0"
  /\ ~DigitsLess(MaxArrayIndex, key)

\* Object.entries: the own properties whose keys are array indices first, in
\* ascending numeric order, then the others in creation order.
ObjectEntries(obj) ==
  LET idx == filter(obj, [ i \in 1..Len(obj) |-> IsArrayIndex(obj[i].key) ])
      str == filter(obj, [ i \in 1..Len(obj) |-> ~IsArrayIndex(obj[i].key) ])
      rank(e) == Cardinality({ j \in 1..Len(idx) : DigitsLess(idx[j].key, e.key) })
  IN [ i \in 1..Len(idx) |-> CHOOSE e \in Range(idx) : rank(e) = i - 1 ] \o str

\* ToNumber of a property value: a string that is no numeral is NaN.
ToNumber(v) == IF v.kind = "number" THEN Num(v.n, 1) ELSE NaN

\* count / words.length * 2
Ratio(v, len) == IF IsNaN(ToNumber(v)) THEN NaN ELSE Num(2 * v.n, len)

extractKeywords(t) ==
  LET ws == words(t)
      entries == ObjectEntries(wordCount(ws))
      top == slice(sort(entries,
                        [ i \in 1..Len(entries) |-> ToNumber(entries[i].value) ]),
                   TopKeywords)
  IN [ i \in 1..Len(top) |->
         [tag |-> <<"#">> \o top[i].key,
          confidence |-> MathMin(Ratio(top[i].value, Len(ws)), MaxKeywordConfidence)] ]

(***************************************************************************)
(* generateCategoryHashtags                                                *)
(***************************************************************************)
categories ==
  << [category |-> <<"t","e","c","h","n","o","l","o","g","y">>,
      keywords |->
        << <<"t","e","c","h">>,
           <<"a","i">>,
           <<"s","o","f","t","w","a","r","e">>,
           <<"d","i","g","i","t","a","l">>,
           <<"i","n","n","o","v","a","t","i","o","n">>,
           <<"c","o","d","i","n","g">>,
           <<"d","e","v","e","l","o","p","m","e","n","t">>,
           <<"s","t","a","r","t","u","p">>,
           <<"a","l","g","o","r","i","t","h","m">> >>],
     [category |-> <<"b","u","s","i","n","e","s","s">>,
      keywords |->
        << <<"b","u","s","i","n","e","s","s">>,
           <<"e","n","t","r","e","p","r","e","n","e","u","r">>,
           <<"m","a","r","k","e","t","i","n","g">>,
           <<"s","a","l","e","s">>,
           <<"p","r","o","f","i","t">>,
           <<"c","o","m","p","a","n","y">>,
           <<"c","o","r","p","o","r","a","t","e">>,
           <<"s","t","r","a","t","e","g","y">> >>],
     [category |-> <<"l","i","f","e","s","t","y","l","e">>,
      keywords |->
        << <<"l","i","f","e">>,
           <<"l","i","v","i","n","g">>,
           <<"d","a","i","l","y">>,
           <<"r","o","u","t","i","n","e">>,
           <<"h","a","b","i","t">>,
           <<"w","e","l","l","n","e","s","s">>,
           <<"b","a","l","a","n","c","e">>,
           <<"p","e","r","s","o","n","a","l">> >>],
     [category |-> <<"f","i","t","n","e","s","s">>,
      keywords |->
        << <<"f","i","t","n","e","s","s">>,
           <<"w","o","r","k","o","u","t">>,
           <<"e","x","e","r","c","i","s","e">>,
           <<"h","e","a","l","t","h">>,
           <<"g","y","m">>,
           <<"t","r","a","i","n","i","n","g">>,
           <<"m","u","s","c","l","e">>,
           <<"s","t","r","e","n","g","t","h">> >>],
     [category |-> <<"t","r","a","v","e","l">>,
      keywords |->
        << <<"t","r","a","v","e","l">>,
           <<"t","r","i","p">>,
           <<"v","a","c","a","t","i","o","n">>,
           <<"j","o","u","r","n","e","y">>,
           <<"a","d","v","e","n","t","u","r","e">>,
           <<"e","x","p","l","o","r","e">>,
           <<"d","e","s","t","i","n","a","t","i","o","n">>,
           <<"t","o","u","r","i","s","m">> >>],
     [category |-> <<"f","o","o","d">>,
      keywords |->
        << <<"f","o","o","d">>,
           <<"r","e","c","i","p","e">>,
           <<"c","o","o","k","i","n","g">>,
           <<"d","e","l","i","c","i","o","u","s">>,
           <<"m","e","a","l">>,
           <<"r","e","s","t","a","u","r","a","n","t">>,
           <<"c","u","i","s","i","n","e">>,
           <<"f","l","a","v","o","r">> >>],
     [category |-> <<"e","d","u","c","a","t","i","o","n">>,
      keywords |->
        << <<"l","e","a","r","n">>,
           <<"e","d","u","c","a","t","i","o","n">>,
           <<"s","t","u","d","y">>,
           <<"k","n","o","w","l","e","d","g","e">>,
           <<"s","k","i","l","l">>,
           <<"c","o","u","r","s","e">>,
           <<"t","r","a","i","n","i","n","g">>,
           <<"d","e","v","e","l","o","p","m","e","n","t">> >>],
     [category |-> <<"c","r","e","a","t","i","v","i","t","y">>,
      keywords |->
        << <<"c","r","e","a","t","i","v","e">>,
           <<"a","r","t">>,
           <<"d","e","s","i","g","n">>,
           <<"i","n","s","p","i","r","a","t","i","o","n">>,
           <<"i","d","e","a">>,
           <<"i","n","n","o","v","a","t","i","o","n">>,
           <<"a","r","t","i","s","t","i","c">>,
           <<"i","m","a","g","i","n","a","t","i","o","n">> >>] >>

\* matches.slice(0, 2)
KeywordsPerCategory == 2

\* confidence: 0.7
KeywordConfidence == Num(7, 10)

\* .slice(0, 8)
TopCategories == 8

\* .slice(0, 15)
MaxHashtags == 15


\* keywords.filter(keyword => lowerText.includes(keyword))
matches(lowerText, keywords) ==
  filter(keywords, [ i \in 1..Len(keywords) |-> includes(lowerText, keywords[i]) ])

\* What one category pushes onto matchedCategories (lines 67-81).
pushed(lowerText, c) ==
  LET m == matches(lowerText, c.keywords)
      two == slice(m, KeywordsPerCategory)
  IN IF Len(m) > 0
     THEN <<[tag |-> <<"#">> \o c.category,
             confidence |-> Num(Len(m), Len(c.keywords))]>>
          \o [ i \in 1..Len(two) |->
                 [tag |-> <<"#">> \o two[i], confidence |-> KeywordConfidence] ]
     ELSE <<>>

\* matchedCategories after Object.entries(categories).forEach over the first
\* k categories.
RECURSIVE matchedCategories(_, _)
matchedCategories(lowerText, k) ==
  IF k = 0 THEN <<>>
  ELSE matchedCategories(lowerText, k - 1) \o pushed(lowerText, categories[k])

\* generateCategoryHashtags without the cut of line 84.
generateCategoryHashtagsUncut(t) ==
  LET all == matchedCategories(toLowerCase(t), Len(categories))
  IN sort(all, [ i \in 1..Len(all) |-> all[i].confidence ])

\* generateCategoryHashtags without the sort of line 84.
generateCategoryHashtagsUnsorted(t) ==
  slice(matchedCategories(toLowerCase(t), Len(categories)), TopCategories)

generateCategoryHashtags(t) ==
  LET all == matchedCategories(toLowerCase(t), Len(categories))
  IN slice(sort(all, [ i \in 1..Len(all) |-> all[i].confidence ]), TopCategories)

(***************************************************************************)
(* The merge of generateHashtags                                           *)
(***************************************************************************)
\* arr.findIndex(h => h.tag.toLowerCase() === tag.toLowerCase())
findIndex(arr, tag) ==
  CHOOSE i \in 1..Len(arr) :
    /\ toLowerCase(arr[i].tag) = toLowerCase(tag)
    /\ \A j \in 1..(i - 1) : toLowerCase(arr[j].tag) # toLowerCase(tag)

\* The filter of lines 114-116 keeping every entry.
uniqueKeepsAll(arr) == arr

\* The filter of lines 114-116 keeping the last entry of a tag, not the first.
uniqueKeepsLast(arr) ==
  filter(arr, [ i \in 1..Len(arr) |->
                  \A j \in (i + 1)..Len(arr) :
                    toLowerCase(arr[j].tag) # toLowerCase(arr[i].tag) ])

\* .filter((hashtag, index, arr) => arr.findIndex(...) === index)
unique(arr) ==
  filter(arr, [ i \in 1..Len(arr) |-> findIndex(arr, arr[i].tag) = i ])

\* allHashtags of the try block (lines 110-118).
allHashtagsTry(keywordHashtags_, categoryHashtags_) ==
  LET u == unique(keywordHashtags_ \o categoryHashtags_)
  IN slice(sort(u, [ i \in 1..Len(u) |-> u[i].confidence ]), MaxHashtags)

\* A catch block that falls back to the keyword hashtags alone.
allHashtagsCatchKeywordsOnly(keywordHashtags_, categoryHashtags_) ==
  LET u == unique(keywordHashtags_)
  IN slice(sort(u, [ i \in 1..Len(u) |-> u[i].confidence ]), MaxHashtags)

\* allHashtags of the catch block (lines 130-138).
allHashtagsCatch(keywordHashtags_, categoryHashtags_) ==
  LET u == unique(keywordHashtags_ \o categoryHashtags_)
  IN slice(sort(u, [ i \in 1..Len(u) |-> u[i].confidence ]), MaxHashtags)

exampleText ==
     <<"J","u","s","t"," ","l","a","u","n","c","h","e">>
  \o <<"d"," ","m","y"," ","n","e","w"," ","s","t","a">>
  \o <<"r","t","u","p"," ","f","o","c","u","s","e","d">>
  \o <<" ","o","n"," ","s","u","s","t","a","i","n","a">>
  \o <<"b","l","e"," ","t","e","c","h","n","o","l","o">>
  \o <<"g","y"," ","a","n","d"," ","r","e","n","e","w">>
  \o <<"a","b","l","e"," ","e","n","e","r","g","y"," ">>
  \o <<"s","o","l","u","t","i","o","n","s","."," ","W">>
  \o <<"e","'","r","e"," ","b","u","i","l","d","i","n">>
  \o <<"g"," ","t","h","e"," ","f","u","t","u","r","e">>
  \o <<" ","o","f"," ","c","l","e","a","n"," ","t","e">>
  \o <<"c","h"," ","i","n","n","o","v","a","t","i","o">>
  \o <<"n"," ","w","i","t","h"," ","A","I","-","p","o">>
  \o <<"w","e","r","e","d"," ","s","o","l","a","r"," ">>
  \o <<"p","a","n","e","l"," ","o","p","t","i","m","i">>
  \o <<"z","a","t","i","o","n",".">>

(***************************************************************************)
(* The texts of the model                                                  *)
(***************************************************************************)
\* The pieces a bounded text is made of: a word and what follows it.
Pieces ==
  { <<"t","r","a","i","n","i","n","g","s"," ">>,
    <<"I","n","n","o","v","a","t","i","o","n","\n">>,
    <<"c","o","n","s","t","r","u","c","t","o","r"," ">>,
    <<"_","_","p","r","o","t","o","_","_"," ">>,
    <<"t","h","a","t"," ">>,
    <<"2","0","2","4"," ">>,
    <<"t","e","c","h","n","o","l","o","g","y",",">>,
    <<" ","\t">> }

\* The longest text, in pieces.
MaxWords == 3

\* The concatenations of at most n pieces.
RECURSIVE Texts(_)
Texts(n) ==
  IF n = 0 THEN { <<>> }
  ELSE LET shorter == Texts(n - 1)
       IN shorter \cup { t \o p : t \in shorter, p \in Pieces }

\* The inputs of the scorers: the bounded texts, and the example of line 274,
\* which has more tokens than the cuts keep, alone or followed by a piece.
Inputs == Texts(MaxWords) \cup { exampleText \o t : t \in Texts(1) }

blankText ==
  <<" "," ","\n">>

sharedKeywordsText ==
  <<"t","r","a","i","n","i","n","g","s"," ","d","e">>
  \o <<"v","e","l","o","p","m","e","n","t",","," ","I">>
  \o <<"n","n","o","v","a","t","i","o","n">>

inheritedNameText ==
  <<"b","e","t","a"," ","c","o","n","s","t","r","u">>
  \o <<"c","t","o","r"," ","t","e","c","h","n","o","l">>
  \o <<"o","g","y"," ","t","e","c","h","n","o","l","o">>
  \o <<"g","y">>

repeatedText ==
  <<"t","e","c","h","n","o","l","o","g","y"," ","t">>
  \o <<"e","c","h","n","o","l","o","g","y"," ","t","e">>
  \o <<"c","h","n","o","l","o","g","y"," ","i","n","n">>
  \o <<"o","v","a","t","i","o","n">>

\* What the user types or pastes into the textarea.
TypedTexts == { <<>>, blankText, sharedKeywordsText, inheritedNameText, repeatedText }

(***************************************************************************)
(* The component                                                           *)
(***************************************************************************)
Init ==
  /\ inputText = <<>>
  /\ hashtags = <<>>
  /\ isLoading = FALSE
  /\ toasted = "none"
  /\ pc = "idle"
  /\ text = <<>>
  /\ probes = 0
  /\ keywordHashtags = <<>>
  /\ categoryHashtags = <<>>

\* onChange of the textarea: setInputText(e.target.value).
SetInputText(t) ==
  /\ pc \in {"idle", "pipeline", "classifier"}
  /\ inputText' = t
  /\ UNCHANGED <<hashtags, isLoading, toasted, pc, text, probes,
                 keywordHashtags, categoryHashtags>>

\* onClick of the example card.
SetExample ==
  /\ pc \in {"idle", "pipeline", "classifier"}
  /\ inputText' = exampleText
  /\ UNCHANGED <<hashtags, isLoading, toasted, pc, text, probes,
                 keywordHashtags, categoryHashtags>>

\* disabled={isLoading || !inputText.trim()} of the Generate button.
ButtonDisabled == isLoading \/ Len(trim(inputText)) = 0

\* A click on the Generate button: generateHashtags up to its first await.
\* The call keeps the inputText of the render it was created in.
GenerateStart ==
  /\ pc = "idle"
  /\ ~ButtonDisabled
  /\ IF Len(trim(inputText)) = 0
     THEN /\ toasted' = "enter some text"
          /\ UNCHANGED <<isLoading, pc, text, probes>>
     ELSE /\ isLoading' = TRUE
          /\ text' = inputText
          /\ probes' = 1
          /\ pc' = "pipeline"
          /\ UNCHANGED toasted
  /\ UNCHANGED <<inputText, hashtags, keywordHashtags, categoryHashtags>>

\* The rest of the try block (lines 110-125), then line 147.
TryBlock ==
  /\ keywordHashtags' = extractKeywords(text)
  /\ categoryHashtags' = generateCategoryHashtags(text)
  /\ hashtags' = allHashtagsTry(extractKeywords(text), generateCategoryHashtags(text))
  /\ toasted' = "AI-powered"
  /\ isLoading' = FALSE
  /\ pc' = "idle"
  /\ UNCHANGED <<inputText, text, probes>>

\* The catch block returning before line 147.
CatchBlockReturns ==
  /\ keywordHashtags' = extractKeywords(text)
  /\ categoryHashtags' = generateCategoryHashtags(text)
  /\ hashtags' = allHashtagsCatch(extractKeywords(text), generateCategoryHashtags(text))
  /\ toasted' = "keyword analysis"
  /\ pc' = "idle"
  /\ UNCHANGED <<inputText, isLoading, text, probes>>

\* The catch block (lines 127-145), then line 147.
CatchBlock ==
  /\ keywordHashtags' = extractKeywords(text)
  /\ categoryHashtags' = generateCategoryHashtags(text)
  /\ hashtags' = allHashtagsCatch(extractKeywords(text), generateCategoryHashtags(text))
  /\ toasted' = "keyword analysis"
  /\ isLoading' = FALSE
  /\ pc' = "idle"
  /\ UNCHANGED <<inputText, text, probes>>

\* await pipeline(...) resolves: classifier(inputText) is called.
PipelineResolve ==
  /\ pc = "pipeline"
  /\ pc' = "classifier"
  /\ UNCHANGED <<inputText, hashtags, isLoading, toasted, text, probes,
                 keywordHashtags, categoryHashtags>>

\* await pipeline(...) rejects.
PipelineReject ==
  /\ pc = "pipeline"
  /\ CatchBlock

\* await classifier(inputText) resolves; its value is dropped.
ClassifierResolve ==
  /\ pc = "classifier"
  /\ TryBlock

\* await classifier(inputText) rejects.
ClassifierReject ==
  /\ pc = "classifier"
  /\ CatchBlock

Next ==
  \/ \E t \in TypedTexts : SetInputText(t)
  \/ SetExample
  \/ GenerateStart
  \/ PipelineResolve
  \/ PipelineReject
  \/ ClassifierResolve
  \/ ClassifierReject

Spec == Init /\ [][Next]_vars

\* The promise the call awaits settles (a time-out of the load or of the
\* device is a rejection) and the call resumes.  The steps of Next that leave
\* an await are those of PipelineResolve, PipelineReject, ClassifierResolve
\* and ClassifierReject, and one of them is enabled exactly at an await.
Resumes ==
  \/ pc = "pipeline" /\ pc' \in {"classifier", "idle"}
  \/ pc = "classifier" /\ pc' = "idle"

\* The event loop runs the continuation of every promise that settles.
FairSpec == Spec /\ WF_pc(Resumes)

(***************************************************************************)
(* The scorers and the merge on their own: lines 110-120 on any text       *)
(***************************************************************************)
InitScorers ==
  /\ inputText \in Inputs
  /\ hashtags = <<>>
  /\ isLoading = FALSE
  /\ toasted = "none"
  /\ pc = "text"
  /\ text = inputText
  /\ probes = 0
  /\ keywordHashtags = <<>>
  /\ categoryHashtags = <<>>

\* const keywordHashtags = extractKeywords(inputText)
CallExtractKeywords ==
  /\ pc = "text"
  /\ keywordHashtags' = extractKeywords(text)
  /\ pc' = "keywords"
  /\ UNCHANGED <<inputText, hashtags, isLoading, toasted, text, probes, categoryHashtags>>

\* const categoryHashtags = generateCategoryHashtags(inputText)
CallGenerateCategoryHashtags ==
  /\ pc = "keywords"
  /\ categoryHashtags' = generateCategoryHashtags(text)
  /\ pc' = "categories"
  /\ UNCHANGED <<inputText, hashtags, isLoading, toasted, text, probes, keywordHashtags>>

\* setHashtags(allHashtags) in the try block
MergeTry ==
  /\ pc = "categories"
  /\ hashtags' = allHashtagsTry(keywordHashtags, categoryHashtags)
  /\ toasted' = "AI-powered"
  /\ pc' = "merged"
  /\ UNCHANGED <<inputText, isLoading, text, probes, keywordHashtags, categoryHashtags>>

\* setHashtags(allHashtags) in the catch block
MergeCatch ==
  /\ pc = "categories"
  /\ hashtags' = allHashtagsCatch(keywordHashtags, categoryHashtags)
  /\ toasted' = "keyword analysis"
  /\ pc' = "merged"
  /\ UNCHANGED <<inputText, isLoading, text, probes, keywordHashtags, categoryHashtags>>

NextScorers ==
  \/ CallExtractKeywords
  \/ CallGenerateCategoryHashtags
  \/ MergeTry
  \/ MergeCatch

SpecScorers == InitScorers /\ [][NextScorers]_vars

(***************************************************************************)
(* What the claims speak of                                                *)
(***************************************************************************)
Zero == Num(0, 1)

One == Num(1, 1)

\* A call of generateHashtags completed.
Completed == pc = "idle" /\ toasted # "none"

\* extractKeywords, generateCategoryHashtags just returned.
HasKeywords == pc = "keywords"

HasCategories == pc = "categories"

\* The positions, in the keyword list of category c, of the keywords that
\* occur in the lower-cased text t.
Matched(c, t) ==
  LET lower == toLowerCase(t)
  IN { i \in 1..Len(c.keywords) : includes(lower, c.keywords[i]) }

\* For each category, in the order of the table, how many of its keywords
\* occur in the text t.
MatchCounts(t) ==
  [ k \in 1..Len(categories) |-> Cardinality(Matched(categories[k], t)) ] \o <<>>

\* How often the token w occurs among the tokens ws.
Occurrences(w, ws) == Cardinality({ i \in 1..Len(ws) : ws[i] = w })

\* The token a keyword hashtag was made of.
TokenOf(h) == Tail(h.tag)

SameTag(g, h) == toLowerCase(g.tag) = toLowerCase(h.tag)

\* The first entry of arr that has the tag of h.
FirstWithTag(arr, h) ==
  arr[CHOOSE i \in 1..Len(arr) :
        SameTag(arr[i], h) /\ \A j \in 1..(i - 1) : ~SameTag(arr[j], h)]

AllWhiteSpace(t) == \A i \in 1..Len(t) : t[i] \in {" ", "\t", "\n"}

\* What the merge of the scorers' results on the text t is.
Merged(t) == allHashtagsTry(extractKeywords(t), generateCategoryHashtags(t))

\* C1: the stored hashtags hold no two entries whose tags are equal when
\* compared case-insensitively, after any edits and generate calls, whether
\* the probe resolved or rejected.
C1_NoDuplicateTags ==
  \A i, j \in 1..Len(hashtags) : i # j => ~SameTag(hashtags[i], hashtags[j])

\* A call completed on a text for which both scorers produced the same tag.
C1_Witness ==
  /\ Completed
  /\ Len(hashtags) > 0
  /\ \E i \in 1..Len(keywordHashtags), j \in 1..Len(categoryHashtags) :
       SameTag(keywordHashtags[i], categoryHashtags[j])

\* C2: the stored hashtags are sorted descending by confidence: for any two
\* positions i < j, confidence[i] >= confidence[j].
C2_SortedByConfidence ==
  \A i, j \in 1..Len(hashtags) :
    i < j => NumLeq(hashtags[j].confidence, hashtags[i].confidence)

\* C3: extractKeywords returns at most 12 entries, each with a confidence in
\* [0, 0.9] that equals min(2 * count / total, 0.9), count being the number
\* of occurrences of the entry's token among the surviving tokens and total
\* the number of surviving tokens, whatever the token is.
C3_KeywordConfidence ==
  HasKeywords =>
    /\ Len(keywordHashtags) <= 12
    /\ \A i \in 1..Len(keywordHashtags) :
         LET h == keywordHashtags[i]
             ws == words(text)
         IN /\ NumLeq(Zero, h.confidence)
            /\ NumLeq(h.confidence, Num(9, 10))
            /\ NumEq(h.confidence,
                     MathMin(Num(2 * Occurrences(TokenOf(h), ws), Len(ws)), Num(9, 10)))

\* C4: generateCategoryHashtags returns at most 8 entries, each with a
\* confidence in [0, 1]: a category tag carries |matches| / |keywords of the
\* category|, strictly positive and at most 1, a keyword tag exactly 0.7.
C4_CategoryConfidence ==
  HasCategories =>
    LET m == MatchCounts(text)
        lower == toLowerCase(text)
    IN /\ Len(categoryHashtags) <= 8
       /\ \A i \in 1..Len(categoryHashtags) :
            LET h == categoryHashtags[i]
            IN /\ NumLeq(Zero, h.confidence)
               /\ NumLeq(h.confidence, One)
               /\ \/ \E k \in 1..Len(categories) :
                       /\ h.tag = <<"#">> \o categories[k].category
                       /\ m[k] > 0
                       /\ NumEq(h.confidence, Num(m[k], Len(categories[k].keywords)))
                       /\ NumLess(Zero, h.confidence)
                  \/ \E k \in 1..Len(categories) :
                       \E x \in 1..Len(categories[k].keywords) :
                         /\ h.tag = <<"#">> \o categories[k].keywords[x]
                         /\ includes(lower, categories[k].keywords[x])
                         /\ NumEq(h.confidence, Num(7, 10))

\* More than 8 entries were pushed and the cut kept 8, of both kinds.
C4_Witness ==
  /\ HasCategories
  /\ Len(matchedCategories(toLowerCase(text), Len(categories))) > 8
  /\ Len(categoryHashtags) = 8
  /\ \E i \in 1..8 : NumEq(categoryHashtags[i].confidence, Num(7, 10))
  /\ \E i \in 1..8 : NumLess(categoryHashtags[i].confidence, Num(7, 10))

\* C5: the outcome of the probe does not influence the result: whether the
\* probe resolved or rejected at either await, the list a call stores is the
\* merge of extractKeywords and generateCategoryHashtags on the text the call
\* was started with.
C5_ProbeOutcomeIrrelevant ==
  Completed => hashtags = Merged(text)

\* A call whose probe rejected stored a result, the text having been edited
\* since the call was started.
C5_Witness ==
  /\ Completed
  /\ toasted = "keyword analysis"
  /\ Len(hashtags) > 0
  /\ inputText # text
  /\ Merged(inputText) # Merged(text)

C7_BlankTextEmptyResult ==
  (pc = "merged" /\ AllWhiteSpace(text)) =>
    /\ Len(keywordHashtags) = 0
    /\ Len(categoryHashtags) = 0
    /\ Len(hashtags) = 0

\* The scorers and the merge ran on a non-empty text of white space.
C7_Witness ==
  pc = "merged" /\ AllWhiteSpace(text) /\ Len(text) > 1

\* The entry of category k when m of its keywords occur in the text.
CategoryEntry(k, m) ==
  [tag |-> <<"#">> \o categories[k].category,
   confidence |-> Num(m, Len(categories[k].keywords))]

\* C8 as claimed: for every category with a keyword occurring in the text,
\* the sequence generateCategoryHashtags returns contains '#' + category with
\* confidence |matches| / |keywords|, however many other categories match.
C8_EveryMatchedCategoryReturned ==
  HasCategories =>
    LET m == MatchCounts(text)
    IN \A k \in 1..Len(categories) :
         m[k] > 0 =>
           \E i \in 1..Len(categoryHashtags) :
             categoryHashtags[i] = CategoryEntry(k, m[k])

\* The keyword tags pushed in all: for each category one for each of its
\* first two matches.
RECURSIVE KeywordTags(_, _)
KeywordTags(m, k) ==
  IF k = 0 THEN 0 ELSE KeywordTags(m, k - 1) + (IF m[k] < 2 THEN m[k] ELSE 2)

\* How many pushed entries come before the entry of category k in descending
\* order of confidence, entries of equal confidence in the order pushed.
EntriesBefore(m, k) ==
  LET own == CategoryEntry(k, m[k]).confidence
  IN Cardinality({ j \in 1..Len(categories) :
                     /\ m[j] > 0
                     /\ \/ NumLess(own, CategoryEntry(j, m[j]).confidence)
                        \/ NumEq(own, CategoryEntry(j, m[j]).confidence) /\ j < k })
     + (IF NumLess(own, Num(7, 10)) THEN KeywordTags(m, Len(categories)) ELSE 0)

\* C8, amended: the returned sequence contains '#' + category with
\* confidence |matches| / |keywords| exactly when fewer than 8 pushed entries
\* come before it in descending order of confidence (ties in the order
\* pushed); so it does whenever at most 8 entries are pushed in all.
C8_MatchedCategoryReturnedUnlessCut ==
  HasCategories =>
    LET m == MatchCounts(text)
    IN \A k \in 1..Len(categories) :
         m[k] > 0 =>
           ((\E i \in 1..Len(categoryHashtags) :
               categoryHashtags[i] = CategoryEntry(k, m[k]))
             <=> EntriesBefore(m, k) < 8)

\* Several categories matched, one kept and one cut.
C8_Witness ==
  /\ HasCategories
  /\ LET m == MatchCounts(text)
     IN /\ \E k \in 1..Len(categories) : m[k] > 0 /\ EntriesBefore(m, k) < 8
        /\ \E k \in 1..Len(categories) : m[k] > 0 /\ EntriesBefore(m, k) >= 8

\* C9: the deduplication keeps the first occurrence in the order of the
\* concatenation, keyword hashtags before category hashtags: of the entries
\* with one tag exactly the first survives, so a tag both scorers produced
\* keeps the confidence of extractKeywords, and of a keyword tag that
\* generateCategoryHashtags returned twice the later one never survives.
C9_FirstOccurrenceSurvives ==
  pc = "merged" =>
    LET arr == keywordHashtags \o categoryHashtags
        kept == unique(arr)
    IN /\ \A i \in 1..Len(arr) :
            /\ Cardinality({ k \in 1..Len(kept) : SameTag(kept[k], arr[i]) }) = 1
            /\ \A k \in 1..Len(kept) :
                 SameTag(kept[k], arr[i]) => kept[k] = FirstWithTag(arr, arr[i])
       /\ \A k \in 1..Len(hashtags) : hashtags[k] = FirstWithTag(arr, hashtags[k])

\* Merged: a tag of both scorers with different confidences, and a keyword
\* tag that generateCategoryHashtags alone returned, twice.
C9_Witness ==
  /\ pc = "merged"
  /\ \E i \in 1..Len(keywordHashtags), j \in 1..Len(categoryHashtags) :
       /\ SameTag(keywordHashtags[i], categoryHashtags[j])
       /\ keywordHashtags[i].confidence # categoryHashtags[j].confidence
  /\ \E i, j \in 1..Len(categoryHashtags) :
       /\ i < j
       /\ SameTag(categoryHashtags[i], categoryHashtags[j])
       /\ \A k \in 1..Len(keywordHashtags) :
            ~SameTag(keywordHashtags[k], categoryHashtags[i])

\* C10: in the sequence extractKeywords returns the counts of the tokens do
\* not increase from first to last, and every surviving token the sequence
\* leaves out has a count that is at most the count of every token in it.
C10_RankedByCount ==
  HasKeywords =>
    LET ws == words(text)
        n == Len(keywordHashtags)
        returned == { TokenOf(keywordHashtags[i]) : i \in 1..n }
    IN /\ \A i, j \in 1..n :
            i < j => Occurrences(TokenOf(keywordHashtags[i]), ws)
                       >= Occurrences(TokenOf(keywordHashtags[j]), ws)
       /\ \A w \in Range(ws) \ returned :
            \A i \in 1..n : Occurrences(w, ws) <= Occurrences(TokenOf(keywordHashtags[i]), ws)

====
